---- MODULE Spec2Model ----
(***************************************************************************)
(* Model of the two command line tools of async-aws-s3:                    *)
(*   src/src/auth.py                   (credential check + listings)       *)
(*   src/src/download_bucket_files.py  (the same, then downloads)          *)
(* Each of main()'s awaited calls is one action.  The three client         *)
(* libraries (aioboto3, aioaws, obstore) are the environment: what they    *)
(* deliver (pages of entries) is drawn in Init, whether a call of theirs   *)
(* raises is drawn by the action that makes the call.                      *)
(*                                                                         *)
(* Python values: an optional value is None (the empty tuple) or <<v>>;    *)
(* a str that the code inspects (an object key) is a sequence of           *)
(* one-character strings; a dict or an object is a record tagged with its  *)
(* kind whose field f maps item/attribute names to values.                 *)
(***************************************************************************)
EXTENDS Integers, Sequences, FiniteSets, TLC

VARIABLES
    tool,         \* "auth" (auth.py) or "download" (download_bucket_files.py)
    env,          \* AWS_ACCESS_KEY_ID / AWS_SECRET_ACCESS_KEY as read at import
    bucket,       \* S3_TEST_BUCKET after .strip()
    max_items,    \* the listing cap main() passes on
    pages,        \* what the bucket delivers: a sequence of pages of entries
    pc,           \* position of main()
    exit_status,  \* None while running, then <<0>> or <<1>>
    log,          \* the backend operations started so far, in order
    report,       \* what each identity check / listing probe printed
    keys,         \* the key list each listing returned
    count,        \* the count each listing reported in its summary line
    requested,    \* number of page/batch requests each listing made
    outcome,      \* per backend, the outcome of each key of its download loop
    fetched,      \* per backend, the keys a fetch was issued for
    failures,     \* per backend, how many fetches or streams raised in its loop
    received,     \* per backend, the key list main() handed to its download
    written,      \* per backend, the paths its download created or wrote to
    files,        \* local files opened for writing
    dirs,         \* local directories created
    entry,        \* the logical entry (key, size) handed to _is_downloadable_entry
    verdict       \* per raw shape, what _is_downloadable_entry returned for it

vars == <<tool, env, bucket, max_items, pages, pc, exit_status,
          log, report, keys, count, requested, outcome, fetched, failures, received,
          written, files,
          dirs, entry, verdict>>

---------------------------------------------------------------------------
(* Bounds of the model *)

MaxItemsBound == 3     \* max_items ranges over 0..MaxItemsBound
MaxPages == 2          \* a listing delivers 1..MaxPages pages
MaxObjects == 3        \* the bucket holds at most this many objects
MaxSize == 2           \* entry sizes handed to the predicate: 0..MaxSize

---------------------------------------------------------------------------
(* Python values *)

None == <<>>
Some(v) == <<v>>

Backends == {"aioboto3", "aioaws", "obstore"}

\* str.endswith("/")
EndsWithSlash(s) == Len(s) > 0 /\ s[Len(s)] = "/"

Min(a, b) == IF a <= b THEN a ELSE b

RECURSIVE Flatten(_)
Flatten(pp) == IF pp = <<>> THEN <<>> ELSE Head(pp) \o Flatten(Tail(pp))

\* The objects a bucket can hold (it holds at most MaxObjects of them), in
\* the sorted order S3 lists them: an object whose key climbs out of its
\* directory ("../x"), one whose key is an absolute path ("/x"), a plain
\* object, a zero-size directory marker, a zero-size object in it, and a
\* further plain object.
Universe ==
    << [key |-> <<".", ".", "/", "x">>, size |-> 1],
       [key |-> <<"/", "x">>, size |-> 1],
       [key |-> <<"a">>, size |-> 1],
       [key |-> <<"d", "/">>, size |-> 0],
       [key |-> <<"d", "/", "b">>, size |-> 0],
       [key |-> <<"e">>, size |-> 2] >>

ObjectIds == 1..Len(Universe)

Increasing(s) == \A i \in 1..(Len(s) - 1) : s[i] < s[i + 1]

\* a page of object ids, and a sequence of pages, both in listing order
IdPages == {p \in UNION {[1..n -> ObjectIds] : n \in 0..MaxObjects} : Increasing(p)}

IdPageSeqs ==
    {pp \in UNION {[1..n -> IdPages] : n \in 1..MaxPages} :
        Increasing(Flatten(pp)) /\ Len(Flatten(pp)) <= MaxObjects}

\* the deliveries of a bucket: every pagination of every set of objects,
\* pages of any size, empty pages included, and the stream of no batch at all
PageSeqs ==
    {<<>>} \cup
    {[p \in 1..Len(pp) |-> [i \in 1..Len(pp[p]) |-> Universe[pp[p][i]]]] : pp \in IdPageSeqs}

---------------------------------------------------------------------------
(* Raw listing entries and _is_downloadable_entry *)

Shapes == {"dictKey", "objKey", "dictPath", "objPath"}

\* The raw entry of one of the four shapes carrying key k and size sz
\* (None or <<n>>); has_size = FALSE leaves the size item/attribute out.
Raw(shape, k, sz, has_size) ==
    CASE shape = "dictKey" ->
           [kind |-> "dict", f |-> IF has_size THEN [Key |-> k, Size |-> sz] ELSE [Key |-> k]]
      [] shape = "objKey" ->
           [kind |-> "obj", f |-> IF has_size THEN [key |-> k, size |-> sz] ELSE [key |-> k]]
      [] shape = "dictPath" ->
           [kind |-> "dict", f |-> IF has_size THEN [path |-> k, size |-> sz] ELSE [path |-> k]]
      [] shape = "objPath" ->
           [kind |-> "obj", f |-> IF has_size THEN [path |-> k, size |-> sz] ELSE [path |-> k]]

\* a plain str, as the download loops hand over
Str(k) == [kind |-> "str", val |-> k]

IsDict(e) == e.kind = "dict"
HasItem(e, name) == IsDict(e) /\ name \in DOMAIN e.f
HasAttr(e, name) == e.kind = "obj" /\ name \in DOMAIN e.f
DictGet(e, name, default) == IF name \in DOMAIN e.f THEN e.f[name] ELSE default

PyBool(b) == IF b THEN "True" ELSE "False"

\* `not k.endswith("/") and (size is None or size > 0)`
DictRule(k, size) == PyBool(~EndsWithSlash(k) /\ (size = None \/ size[1] > 0))

\* AttrRule without the test of the key's last character
AttrRule_NoPrefixCheck(k, size) ==
    IF size = None THEN "TypeError" ELSE PyBool(size[1] > 0)

\* `not k.endswith("/") and size > 0`: the comparison is reached only when
\* the left operand is true, and None > 0 raises TypeError
AttrRule(k, size) ==
    IF EndsWithSlash(k) THEN "False"
    ELSE IF size = None THEN "TypeError"
    ELSE PyBool(size[1] > 0)

\* _is_downloadable_entry: "True", "False", or the exception it raises
_is_downloadable_entry(e) ==
    IF HasItem(e, "Key") THEN DictRule(e.f["Key"], DictGet(e, "Size", None))
    ELSE IF HasAttr(e, "key") /\ HasAttr(e, "size") THEN AttrRule(e.f["key"], e.f["size"])
    ELSE IF HasItem(e, "path") THEN
        LET k == DictGet(e, "path", None)
        IN  IF k = None THEN "False" ELSE DictRule(k, DictGet(e, "size", None))
    ELSE IF HasAttr(e, "path") /\ HasAttr(e, "size") THEN AttrRule(e.f["path"], e.f["size"])
    ELSE "False"

---------------------------------------------------------------------------
(* Listings *)

\* a paginator / aioaws list() makes at least one request
AtLeastOnePage(pp) == IF pp = <<>> THEN << <<>> >> ELSE pp

\* the entries of the pages in the shape the backend delivers them
RawPages(pp, shape) ==
    [p \in 1..Len(pp) |-> [i \in 1..Len(pp[p]) |-> Raw(shape, pp[p][i].key, Some(pp[p][i].size), TRUE)]]

ListStart == [keys |-> <<>>, count |-> 0, requested |-> 0, raised |-> FALSE]

Take(st, k) == [st EXCEPT !.keys = Append(@, k), !.count = @ + 1]

\* Boto3Contents keeping only the downloadable entries
RECURSIVE Boto3Contents_Filtered(_, _, _, _)
Boto3Contents_Filtered(contents, i, st, max) ==
    IF i > Len(contents) THEN st
    ELSE IF _is_downloadable_entry(contents[i]) # "True"
    THEN Boto3Contents_Filtered(contents, i + 1, st, max)
    ELSE LET st2 == Take(st, contents[i].f["Key"])
         IN  IF st2.count >= max THEN st2 ELSE Boto3Contents_Filtered(contents, i + 1, st2, max)

\* list_aioboto3_contents, `for obj in contents`
RECURSIVE Boto3Contents(_, _, _, _)
Boto3Contents(contents, i, st, max) ==
    IF i > Len(contents) THEN st
    ELSE LET st2 == Take(st, contents[i].f["Key"])
         IN  IF st2.count >= max THEN st2 ELSE Boto3Contents(contents, i + 1, st2, max)

\* list_aioboto3_contents, `async for page in paginator.paginate(...)`;
\* request number failAt raises
RECURSIVE Boto3Paginate(_, _, _, _, _)
Boto3Paginate(pp, p, st, max, failAt) ==
    IF p > Len(pp) THEN st
    ELSE IF p = failAt THEN [st EXCEPT !.requested = @ + 1, !.raised = TRUE]
    ELSE LET st2 == Boto3Contents(pp[p], 1, [st EXCEPT !.requested = @ + 1], max)
         IN  IF st2.count >= max THEN st2 ELSE Boto3Paginate(pp, p + 1, st2, max, failAt)

\* list_aioaws_contents, `async for obj in s3.list()`: the generator asks for
\* page p when it runs out of objects (i = 0: page p not requested yet)
RECURSIVE AioawsList(_, _, _, _, _, _)
AioawsList(pp, p, i, st, max, failAt) ==
    IF p > Len(pp) THEN st
    ELSE IF i = 0 THEN
        IF p = failAt THEN [st EXCEPT !.requested = @ + 1, !.raised = TRUE]
        ELSE AioawsList(pp, p, 1, [st EXCEPT !.requested = @ + 1], max, failAt)
    ELSE IF i > Len(pp[p]) THEN AioawsList(pp, p + 1, 0, st, max, failAt)
    ELSE LET st2 == Take(st, pp[p][i].f["key"])
         IN  IF st2.count >= max THEN st2 ELSE AioawsList(pp, p, i + 1, st2, max, failAt)

\* str(entry) of an entry without a usable path
Repr == <<"<", "?", ">">>

\* list_obstore_contents, the name of an entry: `entry.get("path") or entry`
\* falls back to the entry for a missing or empty path (both the empty tuple)
ObstoreName(e) ==
    IF IsDict(e)
    THEN LET v == DictGet(e, "path", None) IN IF v = None THEN Repr ELSE v
    ELSE IF HasAttr(e, "path") THEN e.f["path"] ELSE Repr

\* list_obstore_contents, `for entry in batch`
RECURSIVE ObstoreBatch(_, _, _, _)
ObstoreBatch(batch, i, st, max) ==
    IF i > Len(batch) THEN st
    ELSE LET st2 == Take(st, ObstoreName(batch[i]))
         IN  IF st2.count >= max THEN st2 ELSE ObstoreBatch(batch, i + 1, st2, max)

\* list_obstore_contents, `async for batch in store.list_async(prefix="")`
RECURSIVE ObstoreListAsync(_, _, _, _, _)
ObstoreListAsync(pp, p, st, max, failAt) ==
    IF p > Len(pp) THEN st
    ELSE IF p = failAt THEN [st EXCEPT !.requested = @ + 1, !.raised = TRUE]
    ELSE LET st2 == ObstoreBatch(pp[p], 1, [st EXCEPT !.requested = @ + 1], max)
         IN  IF st2.count >= max THEN st2 ELSE ObstoreListAsync(pp, p + 1, st2, max, failAt)

---------------------------------------------------------------------------
(* Local paths *)

OutDir == <<"o">>

\* outdir / "<backend>"
Base(b) == OutDir \o <<"/", b>>

\* pathlib's `base / key`: an absolute key replaces the base
PathJoin(base, k) == IF Len(k) > 0 /\ k[1] = "/" THEN k ELSE base \o <<"/">> \o k

\* Path.parent: the path up to its last separator; the root is its own parent
RECURSIVE Parent(_)
Parent(path) ==
    IF path = <<>> THEN <<>>
    ELSE IF path[Len(path)] = "/"
    THEN IF Len(path) = 1 THEN path ELSE SubSeq(path, 1, Len(path) - 1)
    ELSE Parent(SubSeq(path, 1, Len(path) - 1))

---------------------------------------------------------------------------
(* Downloads *)

\* what the environment does to one key: nothing, or it fails the directory
\* creation, the fetch, or the streaming of the body
Fates == {"ok", "mkdir", "fetch", "stream"}

\* the skip test as the degraded check on the key alone
Skips_PrefixOnly(k) == EndsWithSlash(k)

\* `if not _is_downloadable_entry(key): continue`
Skips(k) == _is_downloadable_entry(Str(k)) # "True"

DownloadStart ==
    [outcome |-> <<>>, fetched |-> <<>>, failures |-> 0, files |-> {}, dirs |-> {},
     raised |-> FALSE]

\* the `for key in keys` loop of download_aioboto3_files, download_aioaws_files
\* and download_obstore_files (the three loops differ only in the fetch call)
RECURSIVE DownloadLoop(_, _, _, _, _)
DownloadLoop(base, ks, i, st, ft) ==
    IF i > Len(ks) THEN st
    ELSE IF Skips(ks[i])
    THEN DownloadLoop(base, ks, i + 1, [st EXCEPT !.outcome = Append(@, "Skipped")], ft)
    ELSE LET local_path == PathJoin(base, ks[i])
         IN  IF ft[i] = "mkdir" THEN [st EXCEPT !.raised = TRUE]
             ELSE LET st2 == [st EXCEPT !.dirs = @ \cup {Parent(local_path)},
                                        !.fetched = Append(@, ks[i])]
                  IN  IF ft[i] = "fetch"
                      THEN DownloadLoop(base, ks, i + 1,
                                        [st2 EXCEPT !.outcome = Append(@, "Failed"),
                                                    !.failures = @ + 1], ft)
                      ELSE DownloadLoop(base, ks, i + 1,
                             [st2 EXCEPT !.files = @ \cup {local_path},
                                         !.failures = IF ft[i] = "stream" THEN @ + 1 ELSE @,
                                         !.outcome = Append(@, IF ft[i] = "stream"
                                                               THEN "Failed"
                                                               ELSE "Downloaded")],
                             ft)

---------------------------------------------------------------------------
(* Probes *)

\* check_obstore_s3, the `async for batch` loop and the line after it:
\* the lines printed, or the exception caught
RECURSIVE ObstoreProbe(_, _, _, _)
ObstoreProbe(pp, p, batch_count, failAt) ==
    IF p > Len(pp)
    THEN [lines |-> IF batch_count = 0 THEN <<"no_batches">> ELSE <<>>, raised |-> FALSE]
    ELSE IF p = failAt THEN [lines |-> <<>>, raised |-> TRUE]
    ELSE IF pp[p] = <<>> THEN ObstoreProbe(pp, p + 1, batch_count + 1, failAt)
    ELSE [lines |-> <<"first_path", "accepted">>, raised |-> FALSE]

---------------------------------------------------------------------------
(* main() *)

\* Missing testing `value is None` instead of `not value`
Missing_NoneOnly(e) == {name \in DOMAIN e : e[name] = None}

\* _require_creds: the names of the variables that are unset or empty
Missing(e) == {name \in DOMAIN e : e[name] = None \/ e[name][1] = ""}

Exited(status) == pc' = "exit" /\ exit_status' = Some(status)

Started(phase, b) == log' = Append(log, <<phase, b>>)

\* main() up to the first check: _require_creds, the arguments, the output
\* directory of the download tool
main_start ==
    /\ pc = "start"
    /\ IF Missing(env) # {}
       THEN Exited(1) /\ UNCHANGED dirs
       ELSE /\ pc' = "check_aioboto3"
            /\ dirs' = IF tool = "download" THEN dirs \cup {OutDir} ELSE dirs
            /\ UNCHANGED exit_status
    /\ UNCHANGED <<tool, env, bucket, max_items, pages, log, report, keys,
                   count, requested, outcome, fetched, failures, received,
                   written, files, entry, verdict>>

\* check_aioboto3_sts: no handler around get_caller_identity()
check_aioboto3_sts ==
    /\ pc = "check_aioboto3"
    /\ Started("check", "aioboto3")
    /\ \E ok \in BOOLEAN :
         IF ok
         THEN /\ report' = [report EXCEPT !["aioboto3"] = <<"header", "valid">>]
              /\ pc' = "check_aioaws"
              /\ UNCHANGED exit_status
         ELSE /\ report' = [report EXCEPT !["aioboto3"] = <<"header">>]
              /\ Exited(1)
    /\ UNCHANGED <<tool, env, bucket, max_items, pages, keys, count,
                   requested, outcome, fetched, failures, received,
                   written, files, dirs, entry, verdict>>

check_aioaws_s3 ==
    /\ pc = "check_aioaws"
    /\ Started("check", "aioaws")
    /\ IF bucket = ""
       THEN report' = [report EXCEPT !["aioaws"] = <<"header", "skipped">>]
       ELSE LET pp == RawPages(AtLeastOnePage(pages), "objKey")
            IN  \E failAt \in 0..Len(pp) :
                  LET res == AioawsList(pp, 1, 0, ListStart, 1, failAt)
                  IN  report' = [report EXCEPT !["aioaws"] =
                          IF res.raised THEN <<"header", "failed">>
                          ELSE IF res.count = 0 THEN <<"header", "empty", "accepted">>
                          ELSE <<"header", "first_key", "accepted">>]
    /\ pc' = "check_obstore"
    /\ UNCHANGED <<tool, env, bucket, max_items, pages, exit_status, keys,
                   count, requested, outcome, fetched, failures, received,
                   written, files, dirs, entry, verdict>>

\* obstore delivers dicts (older API) or ObjectMeta objects
ObstoreShapes == {"dictPath", "objPath"}

check_obstore_s3 ==
    /\ pc = "check_obstore"
    /\ Started("check", "obstore")
    /\ IF bucket = ""
       THEN report' = [report EXCEPT !["obstore"] = <<"header", "skipped">>]
       ELSE \E shape \in ObstoreShapes, failAt \in 0..Len(pages), no_such_bucket \in BOOLEAN :
                  LET res == ObstoreProbe(RawPages(pages, shape), 1, 0, failAt)
                  IN  report' = [report EXCEPT !["obstore"] =
                          IF res.raised
                          THEN IF no_such_bucket THEN <<"header", "bucket_missing">>
                               ELSE <<"header", "failed">>
                          ELSE <<"header">> \o res.lines]
    /\ pc' = "list_aioboto3"
    /\ UNCHANGED <<tool, env, bucket, max_items, pages, exit_status, keys,
                   count, requested, outcome, fetched, failures, received,
                   written, files, dirs, entry, verdict>>

\* what a listing hands back to main(): auth.py's listings return nothing
Returned(b, ks) == IF tool = "download" THEN [keys EXCEPT ![b] = ks] ELSE keys

\* list_aioboto3_contents: no handler around the paginator
list_aioboto3_contents ==
    /\ pc = "list_aioboto3"
    /\ Started("list", "aioboto3")
    /\ IF bucket = ""
       THEN /\ keys' = Returned("aioboto3", <<>>)
            /\ pc' = "list_aioaws"
            /\ UNCHANGED <<count, requested, exit_status>>
       ELSE LET pp == RawPages(AtLeastOnePage(pages), "dictKey")
            IN  \E failAt \in 0..Len(pp) :
                  LET res == Boto3Paginate(pp, 1, ListStart, max_items, failAt)
                  IN  /\ requested' = [requested EXCEPT !["aioboto3"] = res.requested]
                      /\ IF res.raised
                         THEN Exited(1) /\ UNCHANGED <<keys, count>>
                         ELSE /\ keys' = Returned("aioboto3", res.keys)
                              /\ count' = [count EXCEPT !["aioboto3"] = Some(res.count)]
                              /\ pc' = "list_aioaws"
                              /\ UNCHANGED exit_status
    /\ UNCHANGED <<tool, env, bucket, max_items, pages, report, outcome,
                   fetched, failures, received,
                   written, files, dirs, entry, verdict>>

list_aioaws_contents ==
    /\ pc = "list_aioaws"
    /\ Started("list", "aioaws")
    /\ IF bucket = ""
       THEN /\ keys' = Returned("aioaws", <<>>)
            /\ UNCHANGED <<count, requested>>
       ELSE LET pp == RawPages(AtLeastOnePage(pages), "objKey")
            IN  \E failAt \in 0..Len(pp) :
                  LET res == AioawsList(pp, 1, 0, ListStart, max_items, failAt)
                  IN  /\ requested' = [requested EXCEPT !["aioaws"] = res.requested]
                      /\ keys' = Returned("aioaws", res.keys)
                      /\ count' = IF res.raised THEN count
                                  ELSE [count EXCEPT !["aioaws"] = Some(res.count)]
    /\ pc' = "list_obstore"
    /\ UNCHANGED <<tool, env, bucket, max_items, pages, exit_status, report,
                   outcome, fetched, failures, received,
                   written, files, dirs, entry, verdict>>

\* where main() goes after the listings
AfterListings == IF tool = "download" THEN "download_aioboto3" ELSE "exit"

list_obstore_contents ==
    /\ pc = "list_obstore"
    /\ Started("list", "obstore")
    /\ IF bucket = ""
       THEN /\ keys' = Returned("obstore", <<>>)
            /\ UNCHANGED <<count, requested>>
       ELSE \E shape \in ObstoreShapes, failAt \in 0..Len(pages) :
                  LET res == ObstoreListAsync(RawPages(pages, shape), 1, ListStart,
                                              max_items, failAt)
                  IN  /\ requested' = [requested EXCEPT !["obstore"] = res.requested]
                      /\ keys' = Returned("obstore", res.keys)
                      /\ count' = IF res.raised THEN count
                                  ELSE [count EXCEPT !["obstore"] = Some(res.count)]
    /\ pc' = AfterListings
    /\ exit_status' = IF tool = "download" THEN exit_status ELSE Some(0)
    /\ UNCHANGED <<tool, env, bucket, max_items, pages, report,
                   outcome, fetched, failures, received,
                   written, files, dirs, entry, verdict>>

\* the keys of a batch that get past the `continue`: the environment has a
\* say (a fate) on these alone
Reached(ks) == {i \in 1..Len(ks) : ~Skips(ks[i])}

\* Handed giving every download the aioboto3 listing
Handed_Aioboto3(b) == keys["aioboto3"]

\* main() hands aioboto_keys, aioaws_keys, obstore_keys to the download of
\* the backend that listed them
Handed(b) == keys[b]

\* the part the three download functions share: base.mkdir, the early return
\* on an empty key list, the loop; an exception of the loop leaves main()
Download(b, next, status) ==
    /\ Started("download", b)
    /\ received' = [received EXCEPT ![b] = Handed(b)]
    /\ \E ft \in [Reached(Handed(b)) -> Fates] :
         LET res == DownloadLoop(Base(b), Handed(b), 1, DownloadStart, ft)
         IN  /\ failures' = [failures EXCEPT ![b] = res.failures]
             /\ written' = [written EXCEPT ![b] = {Base(b)} \cup res.dirs \cup res.files]
             /\ outcome' = [outcome EXCEPT ![b] = res.outcome]
             /\ fetched' = [fetched EXCEPT ![b] = res.fetched]
             /\ files' = files \cup res.files
             /\ dirs' = dirs \cup {Base(b)} \cup res.dirs
             /\ IF res.raised
                THEN Exited(1)
                ELSE /\ pc' = next
                     /\ exit_status' = status
    /\ UNCHANGED <<tool, env, bucket, max_items, pages, report, keys, count,
                   requested, entry, verdict>>

download_aioboto3_files ==
    pc = "download_aioboto3" /\ Download("aioboto3", "download_aioaws", exit_status)

download_aioaws_files ==
    pc = "download_aioaws" /\ Download("aioaws", "download_obstore", exit_status)

download_obstore_files ==
    pc = "download_obstore" /\ Download("obstore", "exit", Some(0))

---------------------------------------------------------------------------
(* The tools *)

EnvValues == {None, Some(""), Some("secret")}

PerBackend(v) == [b \in Backends |-> v]

Init ==
    /\ tool \in {"auth", "download"}
    /\ env \in [{"AWS_ACCESS_KEY_ID", "AWS_SECRET_ACCESS_KEY"} -> EnvValues]
    /\ bucket \in {"", "bucket"}
    /\ max_items \in 0..MaxItemsBound
    /\ pages \in PageSeqs
    /\ pc = "start"
    /\ exit_status = None
    /\ log = <<>>
    /\ report = PerBackend(<<>>)
    /\ keys = PerBackend(<<>>)
    /\ count = PerBackend(None)
    /\ requested = PerBackend(0)
    /\ outcome = PerBackend(<<>>)
    /\ fetched = PerBackend(<<>>)
    /\ failures = PerBackend(0)
    /\ received = PerBackend(<<>>)
    /\ written = PerBackend({})
    /\ files = {}
    /\ dirs = {}
    /\ entry = [key |-> <<"a">>, size |-> None, has_size |-> FALSE]
    /\ verdict = [s \in Shapes |-> "unset"]

Next ==
    \/ main_start
    \/ check_aioboto3_sts
    \/ check_aioaws_s3
    \/ check_obstore_s3
    \/ list_aioboto3_contents
    \/ list_aioaws_contents
    \/ list_obstore_contents
    \/ download_aioboto3_files
    \/ download_aioaws_files
    \/ download_obstore_files

Spec == Init /\ [][Next]_vars

---------------------------------------------------------------------------
(* _is_downloadable_entry on the four raw shapes, next to the download loops *)

EntryKeys == {Universe[i].key : i \in ObjectIds} \cup {<<"/">>}

\* a size attribute/item that is None or a number, or no size at all
Entries ==
    [key : EntryKeys, size : {None} \cup {Some(n) : n \in 0..MaxSize}, has_size : {TRUE}]
    \cup [key : EntryKeys, size : {None}, has_size : {FALSE}]

\* _is_downloadable_entry applied to the entry in one of its raw shapes
Classify(shape) ==
    /\ verdict[shape] = "unset"
    /\ verdict' = [verdict EXCEPT ![shape] =
                      _is_downloadable_entry(Raw(shape, entry.key, entry.size, entry.has_size))]
    /\ UNCHANGED <<tool, env, bucket, max_items, pages, pc, exit_status, log, report, keys,
                   count, requested, outcome, fetched, failures, received,
                   written, files, dirs, entry>>

\* The download tool after its checks and listings went through without an
\* exception, with an entry at hand.
InitEntry ==
    /\ tool = "download"
    /\ env = [n \in {"AWS_ACCESS_KEY_ID", "AWS_SECRET_ACCESS_KEY"} |-> Some("secret")]
    /\ bucket = "bucket"
    /\ max_items = MaxItemsBound
    /\ pages \in PageSeqs
    /\ pc = "download_aioboto3"
    /\ exit_status = None
    /\ log = << <<"check", "aioboto3">>, <<"check", "aioaws">>, <<"check", "obstore">>,
                <<"list", "aioboto3">>, <<"list", "aioaws">>, <<"list", "obstore">> >>
    /\ LET boto3 == Boto3Paginate(RawPages(AtLeastOnePage(pages), "dictKey"), 1, ListStart,
                                  max_items, 0)
           aioaws == AioawsList(RawPages(AtLeastOnePage(pages), "objKey"), 1, 0, ListStart,
                                max_items, 0)
           obstore == ObstoreListAsync(RawPages(pages, "objPath"), 1, ListStart, max_items, 0)
       IN  /\ keys = [b \in Backends |-> CASE b = "aioboto3" -> boto3.keys
                                           [] b = "aioaws" -> aioaws.keys
                                           [] b = "obstore" -> obstore.keys]
           /\ count = [b \in Backends |-> CASE b = "aioboto3" -> Some(boto3.count)
                                            [] b = "aioaws" -> Some(aioaws.count)
                                            [] b = "obstore" -> Some(obstore.count)]
           /\ requested = [b \in Backends |-> CASE b = "aioboto3" -> boto3.requested
                                                [] b = "aioaws" -> aioaws.requested
                                                [] b = "obstore" -> obstore.requested]
    /\ report = [b \in Backends |->
                   CASE b = "aioboto3" -> <<"header", "valid">>
                     [] b = "aioaws" -> IF Flatten(pages) = <<>>
                                        THEN <<"header", "empty", "accepted">>
                                        ELSE <<"header", "first_key", "accepted">>
                     [] b = "obstore" ->
                          <<"header">> \o ObstoreProbe(RawPages(pages, "objPath"), 1, 0, 0).lines]
    /\ outcome = PerBackend(<<>>)
    /\ fetched = PerBackend(<<>>)
    /\ failures = PerBackend(0)
    /\ received = PerBackend(<<>>)
    /\ written = PerBackend({})
    /\ files = {}
    /\ dirs = {OutDir}
    /\ entry \in Entries
    /\ verdict = [s \in Shapes |-> "unset"]

NextEntry ==
    \/ \E shape \in Shapes : Classify(shape)
    \/ download_aioboto3_files
    \/ download_aioaws_files
    \/ download_obstore_files

SpecEntry == InitEntry /\ [][NextEntry]_vars

---------------------------------------------------------------------------
(* Properties *)

Done(phase, b) == \E i \in 1..Len(log) : log[i] = <<phase, b>>

Occurrences(seq, v) == Cardinality({i \in 1..Len(seq) : seq[i] = v})

KeysOf(entries) == [i \in 1..Len(entries) |-> entries[i].key]

IsPrefix(s, t) == Len(s) <= Len(t) /\ \A i \in 1..Len(s) : s[i] = t[i]

\* C1: in every download operation a key handed over by the listing is
\* skipped only if it ends with "/"; every other key has a fetch attempted
\* and ends as Downloaded or Failed.
C1_SkippedOnlyIfPrefix ==
    \A b \in Backends :
        Done("download", b) =>
            \A i \in 1..Len(outcome[b]) :
                /\ (outcome[b][i] = "Skipped") <=> EndsWithSlash(keys[b][i])
                /\ ~EndsWithSlash(keys[b][i]) =>
                       \E j \in 1..Len(fetched[b]) : fetched[b][j] = keys[b][i]

\* C2: a download batch never aborts early: every key of the list is
\* processed whatever fails; a batch of downloadable keys ends with as many
\* Failed as fetches (or streams) failed and all the others Downloaded, each
\* of these with its file at its destination path (three keys, one failing
\* fetch: one Failed, two Downloaded).
C2_PartialFailureIsolation ==
    \A b \in Backends :
        Done("download", b) =>
            /\ Len(outcome[b]) = Len(keys[b])
            /\ (\A i \in 1..Len(keys[b]) : ~EndsWithSlash(keys[b][i])) =>
                   /\ Occurrences(outcome[b], "Failed") = failures[b]
                   /\ Occurrences(outcome[b], "Downloaded") = Len(keys[b]) - failures[b]
                   /\ \A i \in 1..Len(keys[b]) :
                          outcome[b][i] = "Downloaded" =>
                              PathJoin(Base(b), keys[b][i]) \in files

\* the pages a backend's listing iterates over, and the entries of the bucket
Delivered(b) == IF b = "obstore" THEN pages ELSE AtLeastOnePage(pages)

Total == Len(Flatten(pages))

\* the number of requests it takes to have seen n entries (all of them when
\* there are fewer)
RECURSIVE PagesHolding(_, _, _)
PagesHolding(pp, p, n) ==
    IF p >= Len(pp) THEN Len(pp)
    ELSE IF Len(Flatten(SubSeq(pp, 1, p))) >= n THEN p
    ELSE PagesHolding(pp, p + 1, n)

\* C3: a listing that runs to its summary line returns exactly
\* min(max_items, N) keys of the N entries the backend holds, never more than
\* max_items, and makes no request beyond the page on which the cap is
\* reached.
C3_ListingCap ==
    \A b \in Backends :
        count[b] # None =>
            /\ count[b][1] = Min(max_items, Total)
            /\ count[b][1] <= max_items
            /\ tool = "download" => Len(keys[b]) = count[b][1]
            /\ requested[b] = PagesHolding(Delivered(b), 1, max_items)

\* C4: the key list a listing returns is a prefix of the keys of the
\* backend's entries in delivery order: nothing dropped, reordered,
\* duplicated or filtered, keys ending in "/" and zero-size entries included.
C4_ListingIsPrefix ==
    \A b \in Backends :
        Done("list", b) => IsPrefix(keys[b], KeysOf(Flatten(pages)))

\* the cap cuts a listing short after the directory marker "d/" (size 0)
C4_Witness ==
    /\ tool = "download"
    /\ Total = 3
    /\ \A b \in Backends :
           Done("list", b) /\ keys[b] = << <<"a">>, <<"d", "/">> >>

\* C5: with the access key or the secret key unset or empty, main() ends
\* with exit status 1 before any backend operation is started: no check,
\* listing or download begins and nothing is reported or written.
C5_MissingCredsAbort ==
    (\E name \in DOMAIN env : env[name] \in {None, Some("")}) =>
        /\ pc \in {"start", "exit"}
        /\ pc = "exit" => exit_status = Some(1)
        /\ log = <<>>
        /\ \A b \in Backends : report[b] = <<>> /\ requested[b] = 0
        /\ dirs = {} /\ files = {}

\* the download tool stopped on an empty secret key
C5_Witness ==
    /\ tool = "download"
    /\ env["AWS_ACCESS_KEY_ID"] = Some("secret")
    /\ env["AWS_SECRET_ACCESS_KEY"] = Some("")
    /\ pc = "exit"
    /\ exit_status = Some(1)

\* the identity check or listing probe of backend b reported a failure
CheckFailed(b) ==
    CASE b = "aioboto3" -> report[b] = <<"header">>
      [] b = "aioaws" -> report[b] = <<"header", "failed">>
      [] b = "obstore" -> report[b] \in {<<"header", "failed">>, <<"header", "bucket_missing">>}

\* the last operation main() awaits
LastPhase == IF tool = "download" THEN "download" ELSE "list"

\* C6: a failed identity check or listing probe of one backend is not fatal:
\* main() goes on to the remaining checks and the listings, and a run that
\* gets through its last operation exits with status zero.
C6_FailedCheckNotFatal ==
    \A b \in Backends :
        CheckFailed(b) /\ pc = "exit" =>
            /\ Done("check", "obstore")
            /\ Done("list", "aioboto3")
            /\ Done(LastPhase, "obstore") => exit_status = Some(0)

\* C7: a listing whose page request fails returns the keys gathered before
\* the failure instead of raising, and main() goes on with the next listing
\* and the downloads.
C7_TruncatedListing ==
    \A b \in Backends :
        Done("list", b) /\ bucket # "" /\ count[b] = None =>
            /\ tool = "download" =>
                   keys[b] = KeysOf(Flatten(SubSeq(Delivered(b), 1, requested[b] - 1)))
            /\ pc = "exit" => Done(LastPhase, "obstore")

\* C8: the four raw shapes carrying the same key and the same size (a
\* number or None) get the same result from _is_downloadable_entry.
C8_ShapeInvariance ==
    \A s1, s2 \in Shapes :
        entry.has_size /\ verdict[s1] # "unset" /\ verdict[s2] # "unset" =>
            verdict[s1] = verdict[s2]

\* C9: for a key not ending in "/", in each of the four shapes,
\* _is_downloadable_entry returns a boolean and never raises: False for size
\* 0, True for a size that is None or absent.
C9_SizeRule ==
    \A s \in Shapes :
        verdict[s] # "unset" /\ ~EndsWithSlash(entry.key) =>
            /\ verdict[s] \in {"True", "False"}
            /\ entry.size = Some(0) => verdict[s] = "False"
            /\ entry.size = None => verdict[s] = "True"

\* C10: for a key ending in "/", _is_downloadable_entry returns False in
\* each of the four shapes whatever the size, and no download operation ever
\* issues a fetch for such a key.
C10_PrefixNeverFetched ==
    /\ \A s \in Shapes :
           verdict[s] # "unset" /\ EndsWithSlash(entry.key) => verdict[s] = "False"
    /\ \A b \in Backends :
           \A i \in 1..Len(fetched[b]) : ~EndsWithSlash(fetched[b][i])

\* a directory marker of positive size was classified in all four shapes,
\* and a download loop went over a key list holding such a key
C10_Witness ==
    /\ EndsWithSlash(entry.key)
    /\ entry.size = Some(1)
    /\ \A s \in Shapes : verdict[s] = "False"
    /\ Done("download", "aioaws")
    /\ \E i \in 1..Len(keys["aioaws"]) :
           EndsWithSlash(keys["aioaws"][i]) /\ outcome["aioaws"][i] = "Skipped"

\* the outcomes a probe's report states: accepted with a first key, accepted
\* but empty, rejected for a missing bucket, rejected for another error
ProbeOutcomes(lines) ==
    {o \in {"first", "empty", "bucket_missing", "failed"} :
        \E i \in 1..Len(lines) :
            \/ o = "first" /\ lines[i] \in {"first_key", "first_path"}
            \/ o = "empty" /\ lines[i] \in {"empty", "no_batches"}
            \/ o = lines[i]}

\* C11: a listing probe run against a non-empty bucket name reports exactly
\* one outcome, whatever the backend answers (batches that are all empty
\* included); it reports a first key only when the bucket holds an entry and
\* an empty result only when it holds none.
C11_ProbeReportsOneOutcome ==
    \A b \in {"aioaws", "obstore"} :
        Done("check", b) /\ bucket # "" =>
            /\ Cardinality(ProbeOutcomes(report[b])) = 1
            /\ "first" \in ProbeOutcomes(report[b]) => Flatten(pages) # <<>>
            /\ "empty" \in ProbeOutcomes(report[b]) => Flatten(pages) = <<>>

\* path lies inside directory root, and does not climb out of it again
InDir(path, root) ==
    /\ Len(path) > Len(root) + 1
    /\ SubSeq(path, 1, Len(root) + 1) = root \o <<"/">>
    /\ ~\E i \in 1..(Len(path) - 1) : path[i] = "." /\ path[i + 1] = "."

PhaseOrder ==
    LET each(phase) == << <<phase, "aioboto3">>, <<phase, "aioaws">>, <<phase, "obstore">> >>
    IN  each("check") \o each("list") \o (IF tool = "download" THEN each("download") ELSE <<>>)

\* C13: the operations of main() start in the fixed order: the three checks
\* (aioboto3, aioaws, obstore), then the three listings, then the three
\* downloads, each one only after the one before it has ended; a run that
\* exits with status zero has gone through all of them; and each download
\* receives the key list its own backend's listing returned.
C13_PhaseOrder ==
    /\ IsPrefix(log, PhaseOrder)
    /\ pc = "exit" /\ exit_status = Some(0) => log = PhaseOrder
    /\ \A b \in Backends : Done("download", b) => received[b] = keys[b]

\* a complete run of the download tool in which the aioaws listing was cut
\* short, so that the backends' key lists differ
C13_Witness ==
    /\ tool = "download"
    /\ pc = "exit"
    /\ exit_status = Some(0)
    /\ log = PhaseOrder
    /\ keys["aioaws"] # <<>>
    /\ keys["aioaws"] # keys["aioboto3"]
    /\ received["aioaws"] = keys["aioaws"]

====
